---- MODULE Spec2Model ----
(***************************************************************************)
(* Model of src/app.py: the fuel-invoice processor.                        *)
(*                                                                         *)
(* One run of the web flow is modelled: upload_files stores the two        *)
(* filename lists in the session, process_files builds the shunt mapping   *)
(* from the docket documents, processes the invoices one by one (each      *)
(* invoice section by section) and combines the per-invoice fragments,     *)
(* and download_combined_csv reads the session back.                       *)
(*                                                                         *)
(* Text extraction and the regular expressions are external to the model:  *)
(* a document's text is represented by what the code's patterns find in    *)
(* it (a match with its groups, or no match).  Money and unit prices are   *)
(* fixed-point integers in units of 1/Scale; Python computes them in       *)
(* binary floating point, which agrees with the exact value except that a  *)
(* value lying exactly half-way between two cents may be formatted either  *)
(* way: the direction is an input of the formatting step.  The fields a    *)
(* pattern matches are taken to be well formed (a date that exists, a      *)
(* number with digits), so pd.to_datetime, int and float do not raise.     *)
(***************************************************************************)
EXTENDS Integers, Sequences, FiniteSets, TLC

VARIABLES
    pc,                 \* position of the run in the web flow
    invoice_filenames,  \* session['invoice_filenames']
    docket_filenames,   \* session['docket_filenames']
    di,                 \* position in docket_filenames (line 203)
    docket_texts,       \* the texts extracted so far for docket_filenames (line 52)
    info,               \* the walrus variable of line 203
    shunt_data,         \* docket number -> shunt record (line 203)
    ii,                 \* position in invoice_filenames (line 210)
    all_data,           \* list of DataSheet fragments (line 209)
    all_checklists,     \* list of Checklist fragments
    all_fuel_trackers,  \* list of FuelTracking fragments
    text,               \* text of the invoice being processed (line 62)
    invoice_no,         \* header fields of the invoice (lines 66-71)
    invoice_date,
    sections,           \* text.split(...)[1:] (line 80)
    si,                 \* position in sections (line 82)
    fuel_tracking_rows, \* accumulators of _process_single_invoice
    total_trailer_cost_excl_gst,
    total_shunt_cost_excl_gst,
    last_delivery_date,
    data, check, fuel,  \* the fragments returned for the last invoice (line 211)
    session_tables,     \* session['data_sheet' / 'checklist_sheet' / 'fuel_tracking_sheet']
    response,           \* what process_files returned
    download,           \* what download_combined_csv returned
    sections_read       \* number of sections in the texts read so far in this run

vars == <<pc, invoice_filenames, docket_filenames, di, docket_texts, info, shunt_data, ii,
          all_data, all_checklists, all_fuel_trackers, text, invoice_no,
          invoice_date, sections, si, fuel_tracking_rows,
          total_trailer_cost_excl_gst, total_shunt_cost_excl_gst,
          last_delivery_date, data, check, fuel, session_tables, response,
          download, sections_read>>

(***************************************************************************)
(* Bounds of the model.                                                    *)
(***************************************************************************)
\* files in the "invoices" field of one upload
MaxInvoices == 2
\* files in the "dockets" field of one upload
MaxDockets == 2
\* delivery sections in all the invoice texts of one run together
MaxSections == 2

\* money and unit prices are integers in units of 1/Scale (5 decimals, the
\* precision the report shows for a unit price)
Scale == 100000

(***************************************************************************)
(* Generic helpers.                                                        *)
(***************************************************************************)
SeqsUpTo(S, n) == UNION {[1..k -> S] : k \in 0..n}

RECURSIVE Concat_LastFirst(_)
\* a variant of Concat: the frames are taken last first
Concat_LastFirst(frames) ==
    IF frames = <<>> THEN <<>> ELSE Concat_LastFirst(Tail(frames)) \o Head(frames)

RECURSIVE Concat(_)
\* pd.concat(frames, ignore_index=True): the rows of the frames, in order
Concat(frames) ==
    IF frames = <<>> THEN <<>> ELSE Head(frames) \o Concat(Tail(frames))

\* a regular-expression search: a match with its groups, or None
Match(g) == [m |-> TRUE, g |-> g]
NoMatch == [m |-> FALSE, g |-> <<>>]

(***************************************************************************)
(* What a run reads from outside: uploaded files, document texts, the      *)
(* financial calendar.                                                     *)
(***************************************************************************)
ALLOWED_EXTENSIONS == {"pdf"}

\* the files a request can carry: one with an allowed extension, one without
Files == {[filename |-> "a.pdf", ext |-> "pdf"], [filename |-> "b.txt", ext |-> "txt"]}

allowed_file(f) == f.ext \in ALLOWED_EXTENSIONS

\* the header of a delivery section: a docket number and a date as it is
\* written in an invoice ("30 Jun 2024": day, month, year); the later section
\* date belongs to the docket number with the leading zero
SectionHeaders == {<<"7", <<30, 6, 2024>>>>, <<"07", <<1, 7, 2024>>>>}
Litres == {100}
UnitPrices == {100046}
Amounts == {15004000}
ShuntDocketNumbers == {"7"}
ShuntQuantities == {10, 200}

\* a shunt-docket text: what the two patterns of _process_shunt_docket find
DocketTexts ==
    [ok : {TRUE},
     docket_no_match : {NoMatch} \cup {Match(<<d>>) : d \in ShuntDocketNumbers},
     shunt_qty_match : {NoMatch} \cup {Match(<<q>>) : q \in ShuntQuantities}]
    \cup {[ok |-> FALSE, docket_no_match |-> NoMatch, shunt_qty_match |-> NoMatch]}

\* one chunk of the invoice text after a "Delivery Docket Number / Date:" marker
Sections ==
    [header_match : {NoMatch} \cup
                    {Match(h) : h \in SectionHeaders},
     data_line_match : {NoMatch} \cup
                    {Match(<<l, p, a>>) : l \in Litres, p \in UnitPrices, a \in Amounts}]

NoText ==
    [ok |-> FALSE, invoice_no_match |-> NoMatch, invoice_date_match |-> NoMatch,
     sections |-> <<>>]

\* the invoice texts with at most n sections; the two header patterns match
\* both or neither
InvoiceTexts(n) ==
    {[ok |-> TRUE,
      invoice_no_match |-> IF h THEN Match(<<"5001">>) ELSE NoMatch,
      invoice_date_match |-> IF h THEN Match(<<<<2, 7, 2024>>>>) ELSE NoMatch,
      sections |-> s] : h \in BOOLEAN, s \in SeqsUpTo(Sections, n)}
    \cup {NoText}

\* FinancialCalendar.csv after line 207: rows of (Date, Week)
financial_calendar_df == <<[Date |-> "30/06/2024", Week |-> "WK 52"]>>

(***************************************************************************)
(* Dates and formatting.                                                   *)
(***************************************************************************)
NoneDate == [y |-> 0, m |-> 0, d |-> 0]

\* pd.to_datetime of a "dd Mon yyyy" string
to_datetime(s) == [y |-> s[3], m |-> s[2], d |-> s[1]]

Pad2(n) == IF n < 10 THEN "0" \o ToString(n) ELSE ToString(n)

MonthAbbr(m) ==
    <<"Jan", "Feb", "Mar", "Apr", "May", "Jun",
      "Jul", "Aug", "Sep", "Oct", "Nov", "Dec">>[m]

\* strftime('%d/%m/%Y'); '%#d/%#m/%Y' is used on both sides of the calendar
\* comparison (lines 109, 126, 207), so one format stands for both
strftime_dmY(t) == Pad2(t.d) \o "/" \o Pad2(t.m) \o "/" \o ToString(t.y)

\* strftime('%d-%b')
strftime_db(t) == Pad2(t.d) \o "-" \o MonthAbbr(t.m)

RECURSIVE FirstWeek(_, _)
\* the 'Week' of the first calendar row whose 'Date' equals the lookup date,
\* '' when there is none
FirstWeek(rows, lookup) ==
    IF rows = <<>> THEN ""
    ELSE IF Head(rows).Date = lookup THEN Head(rows).Week
    ELSE FirstWeek(Tail(rows), lookup)

WeekCode(lookup) == FirstWeek(financial_calendar_df, lookup)

\* n / d rounded to the nearest integer (d > 0); a value exactly half-way goes
\* up when tieUp and down otherwise
RoundDiv(n, d, tieUp) ==
    LET q == n \div d
        r == n % d
    IN  IF 2 * r < d THEN q
        ELSE IF 2 * r > d THEN q + 1
        ELSE IF tieUp THEN q + 1 ELSE q

\* f'{x:.2f}' of x = n / (Scale * div): the number of cents shown
Fmt2(n, div, tieUp) == RoundDiv(n, (Scale \div 100) * div, tieUp)

\* f'{x:.5f}' of x = n / Scale: the number of 1/100000 shown
Fmt5(n, tieUp) == RoundDiv(n, Scale \div 100000, tieUp)

\* a cell of a column that holds text of several shapes
Blank == [k |-> "", v |-> 0]
Str2f(c) == [k |-> "2f", v |-> c]
Dollar2f(c) == [k |-> "$2f", v |-> c]
IntCell(n) == [k |-> "int", v |-> n]

(***************************************************************************)
(* _process_shunt_docket (lines 50-58).                                    *)
(***************************************************************************)
NoInfo == [some |-> FALSE, docket_number |-> "", shunt_qty |-> 0]

\* the record returned for a docket text, NoInfo standing for None
_process_shunt_docket(t) ==
    IF ~t.ok THEN NoInfo
    ELSE IF t.docket_no_match.m /\ t.shunt_qty_match.m
         THEN [some |-> TRUE,
               docket_number |-> t.docket_no_match.g[1],
               shunt_qty |-> t.shunt_qty_match.g[1]]
         ELSE NoInfo

\* a variant of ShuntDataWith: a record never replaces an earlier one
ShuntDataWith_KeepFirst(sd, inf) ==
    IF inf.some /\ inf.docket_number \notin DOMAIN sd
    THEN [k \in DOMAIN sd \cup {inf.docket_number} |->
              IF k = inf.docket_number
              THEN [docket_number |-> inf.docket_number, shunt_qty |-> inf.shunt_qty]
              ELSE sd[k]]
    ELSE sd

\* one step of the dict comprehension of line 203: the record, when there is
\* one, is stored under its docket number
ShuntDataWith(sd, inf) ==
    IF inf.some
    THEN [k \in DOMAIN sd \cup {inf.docket_number} |->
              IF k = inf.docket_number
              THEN [docket_number |-> inf.docket_number, shunt_qty |-> inf.shunt_qty]
              ELSE sd[k]]
    ELSE sd

(***************************************************************************)
(* _process_single_invoice (lines 60-179), as operators on its locals.     *)
(***************************************************************************)
\* int() of a docket number
DocketValue(docket_no) == IF docket_no \in {"7", "07"} THEN 7 ELSE 0

\* a variant of ShuntQtyOf: docket numbers are compared as numbers
ShuntQtyOf_AsNumbers(sd, docket_no) ==
    IF \E k \in DOMAIN sd : DocketValue(k) = DocketValue(docket_no)
    THEN sd[CHOOSE k \in DOMAIN sd : DocketValue(k) = DocketValue(docket_no)].shunt_qty
    ELSE 0

\* shunt_data.get(docket_no, {}).get('shunt_qty', 0)  (line 100)
ShuntQtyOf(sd, docket_no) ==
    IF docket_no \in DOMAIN sd THEN sd[docket_no].shunt_qty ELSE 0

\* a variant of LastDeliveryDateAfter: only a section that makes a row counts
LastDeliveryDateAfter_NeedsData(section, last) ==
    IF section.header_match.m /\ section.data_line_match.m
    THEN to_datetime(section.header_match.g[2]) ELSE last

\* last_delivery_date after one section (lines 84-91): the date of a section
\* whose header matches, whatever its data line
LastDeliveryDateAfter(section, last) ==
    IF section.header_match.m THEN to_datetime(section.header_match.g[2]) ELSE last

\* x * 0.1 of an amount x / Scale, in units of 1 / (Scale * 10)
Times01(x) == x

\* a variant of Times11: the tax is left out of the total
Times11_NoTax(x) == 10 * x

\* x * 1.1 of an amount x / Scale, in units of 1 / (Scale * 10)
Times11(x) == 11 * x

\* the dictionary appended to fuel_tracking_rows for a section whose header
\* and data line both match (lines 88-121); costs are still numbers
FuelTrackingRow(inv_no, inv_date, section, sd) ==
    LET docket_no == section.header_match.g[1]
        delivery_date == to_datetime(section.header_match.g[2])
        total_litres == section.data_line_match.g[1]
        unit_price == section.data_line_match.g[2]
        excl_gst == section.data_line_match.g[3]
        shunt_qty == ShuntQtyOf(sd, docket_no)
        trailer_litres == total_litres - shunt_qty
        shunt_cost == shunt_qty * unit_price
        trailer_cost == trailer_litres * unit_price
    IN  [Invoice |-> inv_no, InvoiceDate |-> inv_date,
         exclGST |-> excl_gst, GST |-> Times01(excl_gst), inclGST |-> Times11(excl_gst),
         DeliveryDate |-> strftime_db(delivery_date),
         FYWK |-> WeekCode(strftime_dmY(delivery_date)),
         Docket |-> docket_no, TotalLitresQTY |-> total_litres,
         SHUNTQTY |-> shunt_qty, TrailerLitres |-> trailer_litres,
         UNITPRICE |-> unit_price, SHUNTCOST |-> shunt_cost,
         INVOICEDIFF |-> Blank, TrailerTotal |-> trailer_cost,
         SHUNTTotal |-> shunt_cost, UploadingWK |-> "WK 01"]

RECURSIVE SumTrailerTotal(_)
\* fuel_tracking_df['Trailer total'].sum()  (line 157)
SumTrailerTotal(rows) ==
    IF rows = <<>> THEN 0 ELSE Head(rows).TrailerTotal + SumTrailerTotal(Tail(rows))

RECURSIVE SumShuntQty(_)
\* fuel_tracking_df['SHUNT QTY'].sum()  (line 158)
SumShuntQty(rows) ==
    IF rows = <<>> THEN 0 ELSE Head(rows).SHUNTQTY + SumShuntQty(Tail(rows))

RECURSIVE SumExclGst(_)
\* fuel_tracking_df['excl GST'].sum()  (line 159)
SumExclGst(rows) ==
    IF rows = <<>> THEN 0 ELSE Head(rows).exclGST + SumExclGst(Tail(rows))

\* the formatting of one row's cost columns (lines 162-165)
FormatRow(r, tieUp) ==
    [r EXCEPT !.exclGST = Fmt2(r.exclGST, 1, tieUp),
              !.GST = Fmt2(r.GST, 10, tieUp),
              !.inclGST = Fmt2(r.inclGST, 10, tieUp),
              !.UNITPRICE = Fmt5(r.UNITPRICE, tieUp),
              !.SHUNTCOST = Fmt2(r.SHUNTCOST, 1, tieUp),
              !.TrailerTotal = Str2f(Fmt2(r.TrailerTotal, 1, tieUp)),
              !.SHUNTTotal = Str2f(Fmt2(r.SHUNTTotal, 1, tieUp)),
              !.INVOICEDIFF = Blank]

\* a variant of WithInvoiceTotals: the trailer total is the row's own
WithInvoiceTotals_OwnTrailer(r, rows, tieUp) ==
    [r EXCEPT !.INVOICEDIFF = Dollar2f(Fmt2(SumExclGst(rows), 1, tieUp)),
              !.TrailerTotal = Dollar2f(r.TrailerTotal.v),
              !.SHUNTTotal = IntCell(SumShuntQty(rows))]

\* the invoice totals written into the last row (lines 166-169)
WithInvoiceTotals(r, rows, tieUp) ==
    [r EXCEPT !.INVOICEDIFF = Dollar2f(Fmt2(SumExclGst(rows), 1, tieUp)),
              !.TrailerTotal = Dollar2f(Fmt2(SumTrailerTotal(rows), 1, tieUp)),
              !.SHUNTTotal = IntCell(SumShuntQty(rows))]

\* a variant of FuelTrackingDf: the totals are written into every row
FuelTrackingDf_EveryRow(rows, tieUp) ==
    [i \in 1..Len(rows) |-> WithInvoiceTotals(FormatRow(rows[i], tieUp), rows, tieUp)]

\* fuel_tracking_df as returned (lines 155-169): nothing is done to an empty
\* frame; otherwise every row is formatted and the last one gets the totals
FuelTrackingDf(rows, tieUp) ==
    IF rows = <<>> THEN <<>>
    ELSE [i \in 1..Len(rows) |->
            IF i = Len(rows)
            THEN WithInvoiceTotals(FormatRow(rows[i], tieUp), rows, tieUp)
            ELSE FormatRow(rows[i], tieUp)]

\* one row of the data sheet (lines 131-139 and 142-150)
DataSheetRow(inv_no, inv_date, gl, store, total, comments, week_ending, fy_wk, tieUp) ==
    [VendorName |-> "BP AUSTRALIA", VendorNo |-> "96029099",
     InvoiceNo |-> inv_no, InvoiceDate |-> inv_date,
     GLNo |-> gl, TradeDept |-> "", MerchDept |-> "", Store |-> store,
     Amount |-> Fmt2(total, 1, tieUp),
     GSTAmount |-> Fmt2(Times01(total), 10, tieUp),
     InvoiceTotal |-> Fmt2(Times11(total), 10, tieUp),
     VendorLineText |-> "",
     StoreLineText |-> "BP AUSTRALIA " \o ToString(store) \o " " \o fy_wk \o " " \o comments,
     Comments |-> comments, WeekEnding |-> week_ending, WeekCountLineText |-> fy_wk]

\* a variant of ShuntRowEmitted: a zero shunt total gets its row too
ShuntRowEmitted_ZeroToo(total_shunt) == total_shunt >= 0

\* whether the shunt row is added (line 141)
ShuntRowEmitted(total_shunt) == total_shunt > 0

\* data_sheet_rows (lines 124-150)
DataSheetRows(inv_no, inv_date, total_trailer, total_shunt, last_date, tieUp) ==
    LET week_ending_date == IF last_date # NoneDate THEN strftime_dmY(last_date) ELSE ""
        week_lookup_date == IF last_date # NoneDate THEN strftime_dmY(last_date) ELSE ""
        fy_wk == WeekCode(week_lookup_date)
    IN  <<DataSheetRow(inv_no, inv_date, 640520, 8409, total_trailer,
                       "BRDC Fuel", week_ending_date, fy_wk, tieUp)>>
        \o (IF ShuntRowEmitted(total_shunt)
            THEN <<DataSheetRow(inv_no, inv_date, 432211, 8682, total_shunt,
                                "BRDC Shunt Fuel", week_ending_date, fy_wk, tieUp)>>
            ELSE <<>>)

\* a variant of ChecklistRows: the shunt total is left out
ChecklistRows_TrailerOnly(inv_no, total_trailer, total_shunt, tieUp) ==
    <<[Vendor |-> "BP AUSTRALIA", VendorNo |-> "96029099", InvoiceNo |-> inv_no,
       ExcGST |-> Fmt2(total_trailer, 1, tieUp),
       GSTAmount |-> Fmt2(Times01(total_trailer), 10, tieUp),
       InvoiceTotal |-> Fmt2(Times11(total_trailer), 10, tieUp)]>>

\* the single row of checklist_sheet (lines 171-177)
ChecklistRows(inv_no, total_trailer, total_shunt, tieUp) ==
    LET total_excl_gst == total_trailer + total_shunt
    IN  <<[Vendor |-> "BP AUSTRALIA", VendorNo |-> "96029099", InvoiceNo |-> inv_no,
           ExcGST |-> Fmt2(total_excl_gst, 1, tieUp),
           GSTAmount |-> Fmt2(Times01(total_excl_gst), 10, tieUp),
           InvoiceTotal |-> Fmt2(Times11(total_excl_gst), 10, tieUp)]>>

(***************************************************************************)
(* The state after construction: a fresh session, nothing uploaded.        *)
(***************************************************************************)
NoFrame == [some |-> FALSE, rows |-> <<>>]
Frame(rows) == [some |-> TRUE, rows |-> rows]

NoTables ==
    [present |-> FALSE, data_sheet |-> <<>>, checklist_sheet |-> <<>>,
     fuel_tracking_sheet |-> <<>>]

NoResponse == [status |-> 0, body |-> "", tables |-> <<>>]

Init ==
    /\ pc = "idle"
    /\ invoice_filenames = <<>>
    /\ docket_filenames = <<>>
    /\ di = 1
    /\ docket_texts = <<>>
    /\ info = NoInfo
    /\ shunt_data = <<>>
    /\ ii = 1
    /\ all_data = <<>>
    /\ all_checklists = <<>>
    /\ all_fuel_trackers = <<>>
    /\ text = NoText
    /\ invoice_no = "Not Found"
    /\ invoice_date = "Not Found"
    /\ sections = <<>>
    /\ si = 1
    /\ fuel_tracking_rows = <<>>
    /\ total_trailer_cost_excl_gst = 0
    /\ total_shunt_cost_excl_gst = 0
    /\ last_delivery_date = NoneDate
    /\ data = NoFrame
    /\ check = NoFrame
    /\ fuel = NoFrame
    /\ session_tables = NoTables
    /\ response = NoResponse
    /\ download = NoResponse
    /\ sections_read = 0

invoiceLocals ==
    <<text, invoice_no, invoice_date, sections, si, fuel_tracking_rows,
      total_trailer_cost_excl_gst, total_shunt_cost_excl_gst, last_delivery_date>>

batchLists == <<all_data, all_checklists, all_fuel_trackers>>

(***************************************************************************)
(* upload_files, POST (lines 184-194).                                     *)
(***************************************************************************)
UploadFiles ==
    /\ pc = "idle"
    /\ \E invoice_files \in SeqsUpTo(Files, MaxInvoices),
          docket_files \in SeqsUpTo(Files, MaxDockets) :
          /\ invoice_filenames' =
                 [i \in 1..Len(SelectSeq(invoice_files, allowed_file)) |->
                     SelectSeq(invoice_files, allowed_file)[i].filename]
          /\ docket_filenames' =
                 [i \in 1..Len(SelectSeq(docket_files, allowed_file)) |->
                     SelectSeq(docket_files, allowed_file)[i].filename]
    /\ pc' = "uploaded"
    /\ UNCHANGED <<di, docket_texts, info, shunt_data, ii, batchLists, invoiceLocals, data,
                   check, fuel, session_tables, response, download, sections_read>>

(***************************************************************************)
(* process_files (lines 198-225).                                          *)
(***************************************************************************)
\* lines 199-201: the filename lists are read; no invoices is a 400
ProcessFilesBegin ==
    /\ pc = "uploaded"
    /\ IF invoice_filenames = <<>>
       THEN /\ response' = [status |-> 400, body |-> "No invoice files to process.",
                            tables |-> <<>>]
            /\ pc' = "done"
       ELSE /\ response' = response
            /\ pc' = "dockets"
    /\ di' = 1
    /\ docket_texts' = <<>>
    /\ shunt_data' = <<>>
    /\ UNCHANGED <<invoice_filenames, docket_filenames, info, ii, batchLists,
                   invoiceLocals, data, check, fuel, session_tables, download,
                   sections_read>>

\* line 203, one docket filename: its text is extracted and parsed
ShuntDocketStep ==
    /\ pc = "dockets"
    /\ di <= Len(docket_filenames)
    /\ \E t \in DocketTexts :
          /\ docket_texts' = Append(docket_texts, t)
          /\ info' = _process_shunt_docket(t)
          /\ shunt_data' = ShuntDataWith(shunt_data, info')
    /\ di' = di + 1
    /\ UNCHANGED <<pc, invoice_filenames, docket_filenames, ii, batchLists,
                   invoiceLocals, data, check, fuel, session_tables, response,
                   download, sections_read>>

\* lines 205-209: the lookup tables are read and the three lists start empty;
\* the model keeps the docket texts no longer than the comprehension of line 203
LoadTables ==
    /\ pc = "dockets"
    /\ di > Len(docket_filenames)
    /\ pc' = "invoices"
    /\ ii' = 1
    /\ all_data' = <<>>
    /\ all_checklists' = <<>>
    /\ all_fuel_trackers' = <<>>
    /\ docket_texts' = <<>>
    /\ UNCHANGED <<invoice_filenames, docket_filenames, di, info, shunt_data,
                   invoiceLocals, data, check, fuel, session_tables, response,
                   download, sections_read>>

\* lines 211 and 61-80: the call for the next invoice filename, up to the
\* start of the section loop; without text it returns (None, None, None) and
\* lines 212-214 append nothing
InvoiceBegin ==
    /\ pc = "invoices"
    /\ ii <= Len(invoice_filenames)
    /\ \E t \in InvoiceTexts(MaxSections - sections_read) :
          /\ text' = t
          /\ sections_read' = sections_read + Len(t.sections)
          /\ IF ~t.ok
             THEN /\ data' = NoFrame
                  /\ check' = NoFrame
                  /\ fuel' = NoFrame
                  /\ ii' = ii + 1
                  /\ pc' = pc
                  /\ UNCHANGED <<invoice_no, invoice_date, sections, si,
                                 fuel_tracking_rows, total_trailer_cost_excl_gst,
                                 total_shunt_cost_excl_gst, last_delivery_date>>
             ELSE /\ invoice_no' = IF t.invoice_no_match.m
                                   THEN t.invoice_no_match.g[1] ELSE "Not Found"
                  /\ invoice_date' = IF t.invoice_date_match.m
                                     THEN strftime_dmY(to_datetime(t.invoice_date_match.g[1]))
                                     ELSE "Not Found"
                  /\ fuel_tracking_rows' = <<>>
                  /\ total_trailer_cost_excl_gst' = 0
                  /\ total_shunt_cost_excl_gst' = 0
                  /\ last_delivery_date' = NoneDate
                  /\ sections' = t.sections
                  /\ si' = 1
                  /\ pc' = "sections"
                  /\ UNCHANGED <<data, check, fuel, ii>>
    /\ UNCHANGED <<invoice_filenames, docket_filenames, di, docket_texts, info, shunt_data,
                   batchLists, session_tables, response, download>>

\* lines 82-121: one iteration of the section loop
SectionStep ==
    /\ pc = "sections"
    /\ si <= Len(sections)
    /\ LET section == sections[si]
       IN  IF ~section.header_match.m
           THEN UNCHANGED <<last_delivery_date, fuel_tracking_rows,
                            total_trailer_cost_excl_gst, total_shunt_cost_excl_gst>>
           ELSE /\ last_delivery_date' = LastDeliveryDateAfter(section, last_delivery_date)
                /\ IF ~section.data_line_match.m
                   THEN UNCHANGED <<fuel_tracking_rows, total_trailer_cost_excl_gst,
                                    total_shunt_cost_excl_gst>>
                   ELSE LET row == FuelTrackingRow(invoice_no, invoice_date,
                                                   section, shunt_data)
                        IN  /\ total_trailer_cost_excl_gst' =
                                   total_trailer_cost_excl_gst + row.TrailerTotal
                            /\ total_shunt_cost_excl_gst' =
                                   total_shunt_cost_excl_gst + row.SHUNTCOST
                            /\ fuel_tracking_rows' = Append(fuel_tracking_rows, row)
    /\ si' = si + 1
    /\ UNCHANGED <<pc, invoice_filenames, docket_filenames, di, docket_texts, info, shunt_data,
                   ii, batchLists, text, invoice_no, invoice_date, sections, data,
                   check, fuel, session_tables, response, download, sections_read>>

\* lines 123-179 and 212-214: the three frames are built, returned and
\* appended to the lists of the run
InvoiceReturn ==
    /\ pc = "sections"
    /\ si > Len(sections)
    /\ \E tieUp \in BOOLEAN :
          /\ data' = Frame(DataSheetRows(invoice_no, invoice_date,
                                         total_trailer_cost_excl_gst,
                                         total_shunt_cost_excl_gst,
                                         last_delivery_date, tieUp))
          /\ fuel' = Frame(FuelTrackingDf(fuel_tracking_rows, tieUp))
          /\ check' = Frame(ChecklistRows(invoice_no, total_trailer_cost_excl_gst,
                                          total_shunt_cost_excl_gst, tieUp))
    /\ all_data' = Append(all_data, data'.rows)
    /\ all_checklists' = Append(all_checklists, check'.rows)
    /\ all_fuel_trackers' = Append(all_fuel_trackers, fuel'.rows)
    /\ ii' = ii + 1
    /\ pc' = "invoices"
    /\ UNCHANGED <<invoice_filenames, docket_filenames, di, docket_texts, info, shunt_data,
                   invoiceLocals, session_tables, response, download, sections_read>>

\* a variant of NoFrames: the list is compared with None, which it never is
NoFrames_IsNone(frames) == FALSE

\* not all_data (line 216)
NoFrames(frames) == frames = <<>>

\* lines 216-225: no frame at all is a 500; otherwise the three lists are
\* concatenated into the session and the result page is rendered
ProcessFilesFinish ==
    /\ pc = "invoices"
    /\ ii > Len(invoice_filenames)
    /\ IF NoFrames(all_data)
       THEN /\ response' = [status |-> 500, body |-> "Could not process any invoices.",
                            tables |-> <<>>]
            /\ session_tables' = session_tables
       ELSE /\ session_tables' =
                   [present |-> TRUE,
                    data_sheet |-> Concat(all_data),
                    checklist_sheet |-> Concat(all_checklists),
                    fuel_tracking_sheet |-> Concat(all_fuel_trackers)]
            /\ response' = [status |-> 200, body |-> "results.html",
                            tables |-> <<session_tables'.data_sheet,
                                         session_tables'.checklist_sheet,
                                         session_tables'.fuel_tracking_sheet>>]
    /\ pc' = "done"
    /\ UNCHANGED <<invoice_filenames, docket_filenames, di, docket_texts, info, shunt_data, ii,
                   batchLists, invoiceLocals, data, check, fuel, download,
                   sections_read>>

(***************************************************************************)
(* download_combined_csv (lines 228-241), requested after the run.         *)
(***************************************************************************)
DownloadCombinedCsv ==
    /\ pc = "done"
    /\ download' =
           IF ~session_tables.present
           THEN [status |-> 404, body |-> "Error: No data in session.", tables |-> <<>>]
           ELSE [status |-> 200, body |-> "combined_invoice_data.csv",
                 tables |-> <<session_tables.checklist_sheet,
                              session_tables.data_sheet,
                              session_tables.fuel_tracking_sheet>>]
    /\ UNCHANGED <<pc, invoice_filenames, docket_filenames, di, docket_texts, info, shunt_data, ii,
                   batchLists, invoiceLocals, data, check, fuel, session_tables,
                   response, sections_read>>

Next ==
    \/ UploadFiles
    \/ ProcessFilesBegin
    \/ ShuntDocketStep
    \/ LoadTables
    \/ InvoiceBegin
    \/ SectionStep
    \/ InvoiceReturn
    \/ ProcessFilesFinish
    \/ DownloadCombinedCsv

Spec == Init /\ [][Next]_vars

(***************************************************************************)
(* Vocabulary of the properties.                                           *)
(***************************************************************************)
\* the last call of _process_single_invoice has returned its three frames, and
\* the locals of the model are still those of that call
Returned == pc \in {"invoices", "done"} /\ data.some

\* a section whose header and data line both parse
ValidSection(sec) == sec.header_match.m /\ sec.data_line_match.m

ValidSections == SelectSeq(sections, ValidSection)

Abs(x) == IF x < 0 THEN -x ELSE x

\* c cents is the value n / unit of a cent rounded to a nearest cent
NearestCent(c, n, unit) == 2 * Abs(c * unit - n) <= unit

\* the number of 1/Scale in one cent
CentUnit == Scale \div 100

\* the i-th fuel-tracking row is the row of the i-th valid section
RowOfSection(row, sec) ==
    /\ row.Docket = sec.header_match.g[1]
    /\ row.DeliveryDate = strftime_db(to_datetime(sec.header_match.g[2]))
    /\ row.TotalLitresQTY = sec.data_line_match.g[1]

\* the three running-total columns of a row are filled in
TotalsFilled(row) ==
    /\ row.INVOICEDIFF.k = "$2f"
    /\ row.TrailerTotal.k = "$2f"
    /\ row.SHUNTTotal.k = "int"

\* C1, as claimed: an invoice with N valid sections returns N fuel-tracking
\* rows in section order; only the last row has its running-total columns
\* filled in and in every earlier row all three of them are blank; with no
\* valid section the table is empty.
C1_AsClaimed ==
    Returned =>
        /\ Len(fuel.rows) = Len(ValidSections)
        /\ \A i \in 1..Len(fuel.rows) : RowOfSection(fuel.rows[i], ValidSections[i])
        /\ \A i \in 1..Len(fuel.rows) :
              IF i = Len(fuel.rows)
              THEN TotalsFilled(fuel.rows[i])
              ELSE /\ fuel.rows[i].INVOICEDIFF = Blank
                   /\ fuel.rows[i].TrailerTotal = Blank
                   /\ fuel.rows[i].SHUNTTotal = Blank

\* C1, amended: an invoice with N valid sections returns N fuel-tracking rows
\* in section order; the last row has INVOICE DIFF, Trailer total and SHUNT
\* Total filled with the invoice totals; in every earlier row INVOICE DIFF is
\* blank while Trailer total and SHUNT Total hold that row's own trailer cost
\* and shunt cost; with no valid section the table is empty.
C1_RowsAndTotals ==
    Returned =>
        /\ Len(fuel.rows) = Len(ValidSections)
        /\ \A i \in 1..Len(fuel.rows) : RowOfSection(fuel.rows[i], ValidSections[i])
        /\ \A i \in 1..Len(fuel.rows) :
              IF i = Len(fuel.rows)
              THEN TotalsFilled(fuel.rows[i])
              ELSE /\ fuel.rows[i].INVOICEDIFF = Blank
                   /\ fuel.rows[i].TrailerTotal.k = "2f"
                   /\ NearestCent(fuel.rows[i].TrailerTotal.v,
                                  fuel.rows[i].TrailerLitres * fuel.rows[i].UNITPRICE,
                                  CentUnit)
                   /\ fuel.rows[i].SHUNTTotal.k = "2f"
                   /\ NearestCent(fuel.rows[i].SHUNTTotal.v,
                                  fuel.rows[i].SHUNTQTY * fuel.rows[i].UNITPRICE,
                                  CentUnit)

\* an invoice with two valid sections has returned, the earlier one with a
\* shunt quantity of its own
C1_Witness ==
    /\ Returned
    /\ Len(fuel.rows) = 2
    /\ fuel.rows[1].SHUNTQTY > 0

RECURSIVE SumShuntCost(_)
\* the shunt cost excluding tax accumulated over the rows of an invoice
SumShuntCost(rows) ==
    IF rows = <<>> THEN 0 ELSE Head(rows).SHUNTCOST + SumShuntCost(Tail(rows))

IsTrailerRow(r) == r.GLNo = 640520 /\ r.Store = 8409
IsShuntRow(r) == r.GLNo = 432211 /\ r.Store = 8682

\* C2: the data sheet returned for an invoice has the trailer row (GL 640520,
\* store 8409) as its first row, a shunt row (GL 432211, store 8682) as its
\* second row exactly when the invoice's accumulated shunt cost is positive,
\* and no other row.
C2_DataSheetRows ==
    Returned =>
        /\ Len(data.rows) \in {1, 2}
        /\ IsTrailerRow(data.rows[1])
        /\ Len(data.rows) = 2 <=> SumShuntCost(fuel_tracking_rows) > 0
        /\ Len(data.rows) = 2 => IsShuntRow(data.rows[2])

\* an invoice whose trailer total is negative has returned both rows
C2_Witness ==
    /\ Returned
    /\ Len(data.rows) = 2
    /\ data.rows[1].Amount < 0

\* C3: a run in which no invoice produced a data sheet ends with an error
\* response of the run (500 "Could not process any invoices." when there were
\* invoice files, 400 when there were none); it writes none of the three
\* tables into the session and renders none, so a later download finds no
\* data; a document that fails is reported by no response of its own.
C3_EmptyBatch ==
    /\ pc = "done" /\ all_data = <<>> =>
          /\ response.status \in {400, 500}
          /\ invoice_filenames # <<>> =>
                 /\ response.status = 500
                 /\ response.body = "Could not process any invoices."
          /\ response.tables = <<>>
          /\ session_tables = NoTables
          /\ download.status \in {0, 404}
    /\ pc # "done" => response = NoResponse

\* two invoice files were uploaded, neither gave any text, and the run failed
C3_Witness ==
    /\ pc = "done"
    /\ Len(invoice_filenames) = 2
    /\ all_data = <<>>
    /\ response.status = 500
    /\ download.status = 404

\* an invoice that failed to parse: none of its header patterns matched
NoHeaderMatch(t) == ~t.invoice_no_match.m /\ ~t.invoice_date_match.m

\* the lists of the run grow by the frames returned for the invoice
FramesAppended ==
    /\ data'.some /\ check'.some /\ fuel'.some
    /\ Len(data'.rows) >= 1
    /\ all_data' = all_data \o <<data'.rows>>
    /\ all_checklists' = all_checklists \o <<check'.rows>>
    /\ all_fuel_trackers' = all_fuel_trackers \o <<fuel'.rows>>

RECURSIVE RowsInOrder(_)
\* the rows of a list of frames, first frame first
RowsInOrder(frames) ==
    IF frames = <<>> THEN <<>>
    ELSE RowsInOrder(SubSeq(frames, 1, Len(frames) - 1)) \o frames[Len(frames)]

\* the final tables are the frames of the contributing invoices in order
TablesInOrder ==
    pc = "done" /\ response.status = 200 =>
        /\ session_tables.data_sheet = RowsInOrder(all_data)
        /\ session_tables.checklist_sheet = RowsInOrder(all_checklists)
        /\ session_tables.fuel_tracking_sheet = RowsInOrder(all_fuel_trackers)

\* C4, as claimed: when the processing of an invoice ends, an invoice without
\* text or without a header match has added nothing to the three lists, any
\* other invoice has added its frames at their ends; the final tables are the
\* frames in that order.
C4_AsClaimed ==
    /\ [][ii' = ii + 1 =>
            IF text'.ok /\ ~NoHeaderMatch(text')
            THEN FramesAppended
            ELSE UNCHANGED batchLists]_vars
    /\ []TablesInOrder

\* C4, amended: when the processing of an invoice ends, an invoice from which
\* no text was extracted has added nothing to the three lists; every other
\* invoice, with or without a header match, has added its frames at their
\* ends; the final tables are the frames in that order.
C4_SkipAndOrder ==
    /\ [][ii' = ii + 1 =>
            IF text'.ok
            THEN FramesAppended
            ELSE UNCHANGED batchLists]_vars
    /\ []TablesInOrder

\* of two invoices one, without any header match, makes the whole data sheet
\* and the other, which gave no text, is skipped
C4_Witness ==
    /\ pc = "done"
    /\ Len(invoice_filenames) = 2
    /\ Len(all_data) = 1
    /\ ~text.ok
    /\ session_tables.present
    /\ session_tables.data_sheet[1].InvoiceNo = "Not Found"

RECURSIVE SumLitresTimesPrice(_)
\* the sum over the rows of a table of trailer litres x unit price, in 1/Scale
SumLitresTimesPrice(rows) ==
    IF rows = <<>> THEN 0
    ELSE Head(rows).TrailerLitres * Head(rows).UNITPRICE
         + SumLitresTimesPrice(Tail(rows))

\* C5: for an invoice with at least one fuel-tracking row, the running trailer
\* total written into the last row is the sum over the rows of trailer litres x
\* unit price, to 2 decimal places, and the amount of the trailer row of the
\* data sheet is that same figure.
C5_TrailerTotal ==
    Returned /\ fuel.rows # <<>> =>
        LET last == fuel.rows[Len(fuel.rows)]
        IN  /\ last.TrailerTotal.k = "$2f"
            /\ NearestCent(last.TrailerTotal.v, SumLitresTimesPrice(fuel.rows), CentUnit)
            /\ data.rows[1].Amount = last.TrailerTotal.v

\* an invoice with two rows, one of them with a shunt quantity, has returned
C5_Witness ==
    /\ Returned
    /\ Len(fuel.rows) = 2
    /\ \E i \in 1..2 : fuel.rows[i].SHUNTQTY > 0
    /\ \E i \in 1..2 : fuel.rows[i].SHUNTQTY = 0

\* between figures shown in cents: tax is pre-tax x 0.1 to 2 decimal places
TaxOfShown(pre, tax) == NearestCent(tax, pre, 10)
\* between figures shown in cents: the total is pre-tax x 1.1 to 2 decimal places
TotalOfShown(pre, total) == NearestCent(total, 11 * pre, 10)
\* the total is within one cent of pre-tax x 1.1
TotalNearShown(pre, total) == Abs(10 * total - 11 * pre) <= 10

\* C6, as claimed: in every monetary row of an invoice (fuel-tracking rows,
\* data-sheet rows, checklist row) the tax shown is the pre-tax amount shown
\* x 0.1 and the total shown is the pre-tax amount shown x 1.1, to 2 decimal
\* places.
C6_AsClaimed ==
    Returned =>
        /\ \A i \in 1..Len(fuel.rows) :
              /\ TaxOfShown(fuel.rows[i].exclGST, fuel.rows[i].GST)
              /\ TotalOfShown(fuel.rows[i].exclGST, fuel.rows[i].inclGST)
        /\ \A i \in 1..Len(data.rows) :
              /\ TaxOfShown(data.rows[i].Amount, data.rows[i].GSTAmount)
              /\ TotalOfShown(data.rows[i].Amount, data.rows[i].InvoiceTotal)
        /\ \A i \in 1..Len(check.rows) :
              /\ TaxOfShown(check.rows[i].ExcGST, check.rows[i].GSTAmount)
              /\ TotalOfShown(check.rows[i].ExcGST, check.rows[i].InvoiceTotal)

\* C6, amended: in every monetary row the tax shown is the pre-tax amount
\* shown x 0.1 to 2 decimal places; the total shown is the pre-tax amount
\* shown x 1.1 to 2 decimal places in a fuel-tracking row, and in a data-sheet
\* or checklist row it is the unrounded pre-tax total x 1.1 to 2 decimal
\* places, which is within 0.01 of the pre-tax amount shown x 1.1.
C6_TaxRelation ==
    Returned =>
        /\ \A i \in 1..Len(fuel.rows) :
              /\ TaxOfShown(fuel.rows[i].exclGST, fuel.rows[i].GST)
              /\ TotalOfShown(fuel.rows[i].exclGST, fuel.rows[i].inclGST)
        /\ \A i \in 1..Len(data.rows) :
              LET unrounded == IF i = 1 THEN total_trailer_cost_excl_gst
                               ELSE total_shunt_cost_excl_gst
              IN  /\ TaxOfShown(data.rows[i].Amount, data.rows[i].GSTAmount)
                  /\ NearestCent(data.rows[i].InvoiceTotal, 11 * unrounded, 10 * CentUnit)
                  /\ TotalNearShown(data.rows[i].Amount, data.rows[i].InvoiceTotal)
        /\ \A i \in 1..Len(check.rows) :
              LET unrounded == total_trailer_cost_excl_gst + total_shunt_cost_excl_gst
              IN  /\ TaxOfShown(check.rows[i].ExcGST, check.rows[i].GSTAmount)
                  /\ NearestCent(check.rows[i].InvoiceTotal, 11 * unrounded, 10 * CentUnit)
                  /\ TotalNearShown(check.rows[i].ExcGST, check.rows[i].InvoiceTotal)

\* an invoice has returned a fuel-tracking row and a trailer row whose total
\* differs from its shown amount x 1.1
C6_Witness ==
    /\ Returned
    /\ fuel.rows # <<>>
    /\ ~TotalOfShown(data.rows[1].Amount, data.rows[1].InvoiceTotal)

\* the figures the data sheet shows for the shunt charge, 0 when there is no
\* shunt row
ShuntShown ==
    IF Len(data.rows) = 2
    THEN [Amount |-> data.rows[2].Amount, GSTAmount |-> data.rows[2].GSTAmount,
          InvoiceTotal |-> data.rows[2].InvoiceTotal]
    ELSE [Amount |-> 0, GSTAmount |-> 0, InvoiceTotal |-> 0]

\* C7, as claimed: an invoice yields one checklist row, whose pre-tax amount,
\* tax and total are the sums of the figures the data sheet shows for the
\* trailer and the shunt charge.
C7_AsClaimed ==
    Returned =>
        /\ Len(check.rows) = 1
        /\ check.rows[1].ExcGST = data.rows[1].Amount + ShuntShown.Amount
        /\ check.rows[1].GSTAmount = data.rows[1].GSTAmount + ShuntShown.GSTAmount
        /\ check.rows[1].InvoiceTotal = data.rows[1].InvoiceTotal + ShuntShown.InvoiceTotal

\* C7, amended: an invoice yields one checklist row, whose pre-tax amount, tax
\* and total are the sum of the unrounded trailer and shunt totals (x 1, x 0.1
\* and x 1.1) to 2 decimal places; each is within 0.01 of the sum of the
\* figures the data sheet shows for the trailer and the shunt charge.
C7_ChecklistSums ==
    Returned =>
        LET unrounded == total_trailer_cost_excl_gst + total_shunt_cost_excl_gst
        IN  /\ Len(check.rows) = 1
            /\ NearestCent(check.rows[1].ExcGST, unrounded, CentUnit)
            /\ NearestCent(check.rows[1].GSTAmount, unrounded, 10 * CentUnit)
            /\ NearestCent(check.rows[1].InvoiceTotal, 11 * unrounded, 10 * CentUnit)
            /\ Abs(check.rows[1].ExcGST
                   - (data.rows[1].Amount + ShuntShown.Amount)) <= 1
            /\ Abs(check.rows[1].GSTAmount
                   - (data.rows[1].GSTAmount + ShuntShown.GSTAmount)) <= 1
            /\ Abs(check.rows[1].InvoiceTotal
                   - (data.rows[1].InvoiceTotal + ShuntShown.InvoiceTotal)) <= 1

\* an invoice with a shunt row has returned a checklist amount that is not the
\* sum of the two amounts the data sheet shows
C7_Witness ==
    /\ Returned
    /\ Len(data.rows) = 2
    /\ check.rows[1].ExcGST # data.rows[1].Amount + data.rows[2].Amount

\* the shunt quantity recorded for exactly this docket number, 0 without one
RecordedShuntQty(docket_no) ==
    IF \E k \in DOMAIN shunt_data : shunt_data[k].docket_number = docket_no
    THEN (CHOOSE q \in {shunt_data[k].shunt_qty : k \in DOMAIN shunt_data} :
             \E k \in DOMAIN shunt_data :
                 /\ shunt_data[k].docket_number = docket_no
                 /\ shunt_data[k].shunt_qty = q)
    ELSE 0

\* C8: in every fuel-tracking row the shunt quantity is that of the shunt
\* record with the very same docket number, 0 without one, and trailer litres
\* + shunt quantity = total litres; a shunt quantity above the total litres is
\* not rejected: the row keeps its negative trailer litres and trailer cost,
\* and the invoice totals include them.
C8_ShuntSplit ==
    /\ pc \in {"sections", "invoices", "done"} =>
          /\ \A i \in 1..Len(fuel_tracking_rows) :
                LET r == fuel_tracking_rows[i]
                IN  /\ r.SHUNTQTY = RecordedShuntQty(r.Docket)
                    /\ r.TrailerLitres + r.SHUNTQTY = r.TotalLitresQTY
                    /\ r.TrailerTotal = r.TrailerLitres * r.UNITPRICE
          /\ pc = "sections" =>
                /\ Len(fuel_tracking_rows) = Len(SelectSeq(SubSeq(sections, 1, si - 1),
                                                         ValidSection))
                /\ total_trailer_cost_excl_gst = SumLitresTimesPrice(fuel_tracking_rows)
    /\ Returned =>
          /\ Len(fuel.rows) = Len(fuel_tracking_rows)
          /\ \A i \in 1..Len(fuel.rows) :
                /\ fuel.rows[i].SHUNTQTY = fuel_tracking_rows[i].SHUNTQTY
                /\ fuel.rows[i].TrailerLitres = fuel_tracking_rows[i].TrailerLitres
                /\ fuel.rows[i].TotalLitresQTY = fuel_tracking_rows[i].TotalLitresQTY
          /\ NearestCent(data.rows[1].Amount,
                         SumLitresTimesPrice(fuel_tracking_rows), CentUnit)

\* an invoice has returned a row with negative trailer litres next to a row of
\* a docket number that differs from the recorded one only by a leading zero
C8_Witness ==
    /\ Returned
    /\ Len(fuel.rows) = 2
    /\ \E i \in 1..2 : fuel.rows[i].TrailerLitres < 0
    /\ \E i \in 1..2 : fuel.rows[i].Docket = "07" /\ fuel.rows[i].SHUNTQTY = 0
    /\ data.rows[1].Amount = 0

RECURSIVE LastHeaderDate(_)
\* the date of the last section in text order whose header parses, NoneDate
\* when no header parses
LastHeaderDate(secs) ==
    IF secs = <<>> THEN NoneDate
    ELSE IF secs[Len(secs)].header_match.m
         THEN to_datetime(secs[Len(secs)].header_match.g[2])
         ELSE LastHeaderDate(SubSeq(secs, 1, Len(secs) - 1))

\* the accumulators that only a valid section may change
rowsAndTotals ==
    <<fuel_tracking_rows, total_trailer_cost_excl_gst, total_shunt_cost_excl_gst>>

\* the week ending and the week code of every data-sheet row are those of date
WeekOf(date) ==
    \A i \in 1..Len(data.rows) :
        /\ data.rows[i].WeekEnding = (IF date = NoneDate THEN "" ELSE strftime_dmY(date))
        /\ data.rows[i].WeekCountLineText =
               (IF date = NoneDate THEN "" ELSE WeekCode(strftime_dmY(date)))

\* C9: a section whose header does not parse changes no accumulator of the
\* invoice; a section whose header parses and whose data line does not
\* changes last_delivery_date alone, to its own date; so the week ending and
\* the week code of the data sheet are those of the last section in text order
\* with a valid header.
C9_SectionFrame ==
    /\ [][pc = "sections" /\ si' = si + 1 =>
            /\ ~sections[si].header_match.m =>
                   UNCHANGED <<rowsAndTotals, last_delivery_date>>
            /\ sections[si].header_match.m /\ ~sections[si].data_line_match.m =>
                   /\ UNCHANGED rowsAndTotals
                   /\ last_delivery_date' = to_datetime(sections[si].header_match.g[2])]_vars
    /\ [](Returned => WeekOf(LastHeaderDate(sections)))

\* an invoice has returned whose last section has a header and no data line,
\* and an earlier date than the section that made its only row
C9_Witness ==
    /\ Returned
    /\ Len(sections) = 2
    /\ ValidSection(sections[1])
    /\ sections[2].header_match.m /\ ~sections[2].data_line_match.m
    /\ sections[1].header_match.g[2] = <<1, 7, 2024>>
    /\ sections[2].header_match.g[2] = <<30, 6, 2024>>
    /\ Len(fuel.rows) = 1
    /\ data.rows[1].WeekEnding = "30/06/2024"

\* the docket texts read so far from which both fields were extracted
Extracted(t) == t.ok /\ t.docket_no_match.m /\ t.shunt_qty_match.m

\* the position of the last text read so far that yields docket number k
LastWith(k) ==
    CHOOSE j \in 1..Len(docket_texts) :
        /\ Extracted(docket_texts[j]) /\ docket_texts[j].docket_no_match.g[1] = k
        /\ \A l \in (j + 1)..Len(docket_texts) :
              ~(Extracted(docket_texts[l]) /\ docket_texts[l].docket_no_match.g[1] = k)

\* C10: while the shunt mapping is built it holds one record per docket
\* number, for exactly the docket numbers of the documents read so far from
\* which both the docket number and the quantity were extracted, and the
\* record of a docket number is that of the last such document in list order.
C10_ShuntMapping ==
    pc = "dockets" =>
        /\ DOMAIN shunt_data =
               {docket_texts[j].docket_no_match.g[1] :
                    j \in {l \in 1..Len(docket_texts) : Extracted(docket_texts[l])}}
        /\ \A k \in DOMAIN shunt_data :
              /\ shunt_data[k].docket_number = k
              /\ shunt_data[k].shunt_qty = docket_texts[LastWith(k)].shunt_qty_match.g[1]

\* two documents with the same docket number and different quantities were
\* read, and the mapping holds the quantity of the second
C10_Witness ==
    /\ pc = "dockets"
    /\ Len(docket_texts) = 2
    /\ Extracted(docket_texts[1]) /\ Extracted(docket_texts[2])
    /\ docket_texts[1].docket_no_match.g[1] = docket_texts[2].docket_no_match.g[1]
    /\ docket_texts[1].shunt_qty_match.g[1] = 10
    /\ docket_texts[2].shunt_qty_match.g[1] = 200
    /\ shunt_data["7"].shunt_qty = 200

====
